---- MODULE Spec2Model ----
(* Model of generate.py, the business card website generator: the pure      *)
(* helpers (escape_vcard, slugify_name, generate_vcard), the collision      *)
(* avoiding choose_output_path and the batch loop of main.                  *)
(* Python strings are sequences of one-character strings.  A JSON value is  *)
(* a record [kind, s]: kind "str" with its characters s, or kind "null".    *)
EXTENDS Integers, Sequences, FiniteSets, TLC

----------------------------------------------------------------------------
(* Bounds of the explored inputs *)

MaxTextLen == 3
MaxSlugLen == 4
MaxFiles == 2
MaxExisting == 3

----------------------------------------------------------------------------
(* Characters and strings *)

Printable ==
  << " ", "!", "\"", "#", "$", "%", "&", "'", "(", ")", "*", "+", ",", "-",
     ".", "/", "0", "1", "2", "3", "4", "5", "6", "7", "8", "9", ":", ";",
     "<", "=", ">", "?", "@", "A", "B", "C", "D", "E", "F", "G", "H", "I",
     "J", "K", "L", "M", "N", "O", "P", "Q", "R", "S", "T", "U", "V", "W",
     "X", "Y", "Z", "[", "\\", "]", "^", "_", "GRAVE", "a", "b", "c", "d", "e",
     "f", "g", "h", "i", "j", "k", "l", "m", "n", "o", "p", "q", "r", "s",
     "t", "u", "v", "w", "x", "y", "z", "{", "|", "}", "~" >>

(* Printable lists the characters U+0020..U+007E in code point order; the   *)
(* grave accent U+0060 is written as the token "GRAVE".                     *)
Ord(c) ==
  IF c = "\n" THEN 10
  ELSE 31 + (CHOOSE i \in 1..Len(Printable) : Printable[i] = c)

Chr(n) == IF n = 10 THEN "\n" ELSE Printable[n - 31]

Range(s) == { s[i] : i \in 1..Len(s) }

None == [kind |-> "null", s |-> <<>>]

Text(s) == [kind |-> "str", s |-> s]

Truthy(v) == v.kind = "str" /\ v.s # <<>>

str(v) == IF v.kind = "null" THEN <<"N", "o", "n", "e">> ELSE v.s

RECURSIVE Replace(_, _, _)
Replace(s, old, new) ==
  IF s = <<>> THEN <<>>
  ELSE (IF Head(s) = old THEN new ELSE <<Head(s)>>) \o Replace(Tail(s), old, new)

RECURSIVE Join(_, _)
Join(lines, sep) ==
  IF lines = <<>> THEN <<>>
  ELSE IF Len(lines) = 1 THEN lines[1]
  ELSE lines[1] \o sep \o Join(Tail(lines), sep)

Get(data, key, default) == IF key \in DOMAIN data THEN data[key] ELSE default

----------------------------------------------------------------------------
(* escape_vcard *)

(* escape_vcard with the backslash replaced last instead of first *)
escape_vcard_backslash_last(text) ==
  IF ~Truthy(text) THEN <<>>
  ELSE Replace(Replace(Replace(str(text), ";", <<"\\", ";">>),
                       ",", <<"\\", ",">>),
               "\\", <<"\\", "\\">>)

escape_vcard(text) ==
  IF ~Truthy(text) THEN <<>>
  ELSE Replace(Replace(Replace(str(text), "\\", <<"\\", "\\">>),
                       ";", <<"\\", ";">>),
               ",", <<"\\", ",">>)

----------------------------------------------------------------------------
(* slugify_name *)

lower(s) ==
  [i \in 1..Len(s) |->
     IF Ord(s[i]) >= 65 /\ Ord(s[i]) <= 90 THEN Chr(Ord(s[i]) + 32) ELSE s[i]]

SlugChar(c) ==
  \/ Ord(c) >= 97 /\ Ord(c) <= 122
  \/ Ord(c) >= 48 /\ Ord(c) <= 57
  \/ c = " "
  \/ c = "_"

RemoveDisallowed(s) == SelectSeq(s, SlugChar)

RECURSIVE CollapseUnderscores(_)
CollapseUnderscores(s) ==
  IF Len(s) < 2 THEN s
  ELSE IF s[1] = "_" /\ s[2] = "_" THEN CollapseUnderscores(Tail(s))
  ELSE <<s[1]>> \o CollapseUnderscores(Tail(s))

RECURSIVE StripUnderscores(_)
StripUnderscores(s) ==
  IF s = <<>> THEN s
  ELSE IF s[1] = "_" THEN StripUnderscores(Tail(s))
  ELSE IF s[Len(s)] = "_" THEN StripUnderscores(SubSeq(s, 1, Len(s) - 1))
  ELSE s

(* slugify_name with the underscores collapsed before the spaces are replaced *)
slugify_name_collapse_first(value) ==
  IF ~Truthy(value) THEN <<>>
  ELSE StripUnderscores(
         Replace(CollapseUnderscores(RemoveDisallowed(lower(str(value)))),
                 " ", <<"_">>))

slugify_name(value) ==
  IF ~Truthy(value) THEN <<>>
  ELSE StripUnderscores(
         CollapseUnderscores(
           Replace(RemoveDisallowed(lower(str(value))), " ", <<"_">>)))

----------------------------------------------------------------------------
(* generate_vcard *)

OptionalKeys == <<"title", "company", "phone", "email", "website",
                  "linkedin", "github", "twitter">>

Unknown == <<"U", "n", "k", "n", "o", "w", "n">>

BEGIN_VCARD == <<"B", "E", "G", "I", "N", ":", "V", "C", "A", "R", "D">>

VERSION_3_0 == <<"V", "E", "R", "S", "I", "O", "N", ":", "3", ".", "0">>

END_VCARD == <<"E", "N", "D", ":", "V", "C", "A", "R", "D">>

FN_ == <<"F", "N", ":">>

N_ == <<"N", ":">>

PropertyPrefix ==
  [title    |-> <<"T", "I", "T", "L", "E", ":">>,
   company  |-> <<"O", "R", "G", ":">>,
   phone    |-> <<"T", "E", "L", ";", "T", "Y", "P", "E", "=", "W", "O", "R",
                  "K", ":">>,
   email    |-> <<"E", "M", "A", "I", "L", ";", "T", "Y", "P", "E", "=", "I",
                  "N", "T", "E", "R", "N", "E", "T", ":">>,
   website  |-> <<"U", "R", "L", ":">>,
   linkedin |-> <<"U", "R", "L", ";", "X", "-", "L", "A", "B", "E", "L", "=",
                  "L", "i", "n", "k", "e", "d", "I", "n", ":">>,
   github   |-> <<"U", "R", "L", ";", "X", "-", "L", "A", "B", "E", "L", "=",
                  "G", "i", "t", "H", "u", "b", ":">>,
   twitter  |-> <<"U", "R", "L", ";", "X", "-", "L", "A", "B", "E", "L", "=",
                  "T", "w", "i", "t", "t", "e", "r", ":">>]

OptionalLine(data, key) ==
  IF Truthy(Get(data, key, None))
  THEN << PropertyPrefix[key] \o escape_vcard(data[key]) >>
  ELSE << >>

RECURSIVE OptionalLines(_, _)
OptionalLines(data, keys) ==
  IF keys = <<>> THEN <<>>
  ELSE OptionalLine(data, Head(keys)) \o OptionalLines(data, Tail(keys))

generate_vcard(data) ==
  LET name == Get(data, "name", Text(Unknown))
      lines == << BEGIN_VCARD,
                  VERSION_3_0,
                  FN_ \o escape_vcard(name),
                  N_ \o escape_vcard(name) \o <<";", ";", ";">> >>
               \o OptionalLines(data, OptionalKeys)
               \o << END_VCARD >>
  IN  Join(lines, <<"\n">>)

----------------------------------------------------------------------------
(* generate_qr_code and render_template *)

(* The QR symbol, its PNG bytes and their base64 text are produced by the  *)
(* qrcode and PIL libraries; the data URI is kept as its prefix and the    *)
(* payload the symbol encodes.                                              *)
generate_qr_code(vcard_data) ==
  [prefix |-> "data:image/png;base64,", payload |-> vcard_data]

(* The jinja2 template is external; the rendered page is kept as the       *)
(* template name and the values handed to template.render.                 *)
html_content(card_data, qr_code_uri) ==
  [template |-> "card.html",
   name     |-> Get(card_data, "name", Text(Unknown)),
   title    |-> Get(card_data, "title", None),
   company  |-> Get(card_data, "company", None),
   email    |-> Get(card_data, "email", None),
   phone    |-> Get(card_data, "phone", None),
   website  |-> Get(card_data, "website", None),
   linkedin |-> Get(card_data, "linkedin", None),
   github   |-> Get(card_data, "github", None),
   twitter  |-> Get(card_data, "twitter", None),
   qr_code  |-> qr_code_uri]

----------------------------------------------------------------------------
(* choose_output_path and the helpers of main *)

DotHtml == <<".", "h", "t", "m", "l">>

DotJson == <<".", "j", "s", "o", "n">>

DefaultBaseName == <<"c", "a", "r", "d">>

RECURSIVE IntStr(_)
IntStr(n) ==
  IF n < 10 THEN <<Chr(48 + n)>>
  ELSE IntStr(n \div 10) \o <<Chr(48 + (n % 10))>>

FirstPath(base) == base \o DotHtml

Candidate(base, k) == base \o <<"-">> \o IntStr(k) \o DotHtml

(* exists that never finds the file *)
exists_never(dir, path) == FALSE

exists(dir, path) == path \in DOMAIN dir

(* the while loop stepping by two *)
NextIndexSkip(k) == k + 2

NextIndex(k) == k + 1

(* Path.stem: the name without its last suffix *)
stem(name) ==
  LET dots == { i \in 2..(Len(name) - 1) : name[i] = "." }
  IN  IF dots = {} THEN name
      ELSE SubSeq(name, 1, (CHOOSE i \in dots : \A j \in dots : j <= i) - 1)

RECURSIVE StrLess(_, _)
StrLess(a, b) ==
  IF b = <<>> THEN FALSE
  ELSE IF a = <<>> THEN TRUE
  ELSE IF Head(a) # Head(b) THEN Ord(Head(a)) < Ord(Head(b))
  ELSE StrLess(Tail(a), Tail(b))

(* the input files in descending order of name *)
RECURSIVE sorted_descending(_)
sorted_descending(S) ==
  IF S = {} THEN <<>>
  ELSE LET m == CHOOSE x \in S : \A y \in S : ~StrLess(x, y)
       IN  <<m>> \o sorted_descending(S \ {m})

RECURSIVE sorted(_)
sorted(S) ==
  IF S = {} THEN <<>>
  ELSE LET m == CHOOSE x \in S : \A y \in S : ~StrLess(y, x)
       IN  <<m>> \o sorted(S \ {m})

EndsWith(s, suffix) ==
  /\ Len(s) >= Len(suffix)
  /\ SubSeq(s, Len(s) - Len(suffix) + 1, Len(s)) = suffix

glob_json(dir) == { n \in DOMAIN dir : EndsWith(n, DotJson) }

(* the empty-input test that never fires *)
NoInputsNever(paths) == FALSE

NoInputs(paths) == paths = <<>>

(* load_business_card that returns an empty record for a file it cannot read *)
load_business_card_lenient(file) ==
  IF file.kind = "json" THEN [ok |-> TRUE, data |-> file.data, status |-> 0]
  ELSE [ok |-> TRUE, data |-> <<>>, status |-> 0]

(* A file of the input directory: parseable JSON, text that is not JSON,   *)
(* or a name that cannot be opened any more.                               *)
load_business_card(file) ==
  IF file.kind = "json" THEN [ok |-> TRUE, data |-> file.data, status |-> 0]
  ELSE [ok |-> FALSE, data |-> <<>>, status |-> 1]

(* the fallback chain without its last step *)
BaseNameNoDefault(data, json_path) ==
  LET from_name == slugify_name(Get(data, "name", Text(<<>>)))
      from_stem == slugify_name(Text(stem(json_path)))
  IN  IF from_name # <<>> THEN from_name ELSE from_stem

BaseName(data, json_path) ==
  LET from_name == slugify_name(Get(data, "name", Text(<<>>)))
      from_stem == slugify_name(Text(stem(json_path)))
  IN  IF from_name # <<>> THEN from_name
      ELSE IF from_stem # <<>> THEN from_stem
      ELSE DefaultBaseName

WriteFile(dir, path, content) ==
  [p \in DOMAIN dir \cup {path} |-> IF p = path THEN content ELSE dir[p]]

----------------------------------------------------------------------------
(* State *)

VARIABLES
  pc,           \* position in main, or the helper under evaluation
  input_dir,    \* input/: file name -> file
  output_dir,   \* output/: file name -> page
  output_dir0,  \* output/ as it was when the run started
  json_paths,   \* main: sorted(input_dir.glob("*.json"))
  cursor,       \* main: position of the for loop in json_paths
  card_data,    \* main: the loaded record
  base_name,    \* main: base_name
  output_path,  \* main: output_path
  index,        \* choose_output_path: index
  vcard,        \* main: vcard
  qr_code_uri,  \* main: qr_code_uri
  loaded,       \* stdout: names reported "Loaded card for"
  generated,    \* stdout: paths reported "Website generated at"
  exit_code,    \* process exit status, NotExited while running
  text,         \* escape_vcard: argument
  escaped,      \* escape_vcard: result
  value,        \* slugify_name: argument
  slug,         \* slugify_name: result
  reslug        \* slugify_name applied to its own result

vars == << pc, input_dir, output_dir, output_dir0, json_paths, cursor,
           card_data, base_name, output_path, index, vcard, qr_code_uri,
           loaded, generated, exit_code, text, escaped, value, slug, reslug >>

mainVars == << input_dir, output_dir, output_dir0, json_paths, cursor,
               card_data, base_name, output_path, index, vcard, qr_code_uri,
               loaded, generated, exit_code >>

escapeVars == << text, escaped >>

slugVars == << value, slug, reslug >>

NotExited == 0 - 1

----------------------------------------------------------------------------
(* Inputs *)

RECURSIVE Strings(_, _)
Strings(chars, n) ==
  IF n = 0 THEN { <<>> }
  ELSE LET shorter == Strings(chars, n - 1)
       IN  shorter \cup { <<c>> \o w : c \in chars, w \in shorter }

EscapeChars == { "\\", ";", ",", "a", "\n" }

SlugChars == { "A", "b", "7", " ", "_", "-", "!" }

JaneDoe ==
  [name  |-> Text(<<"J", "a", "n", "e", " ", "D", "o", "e">>),
   email |-> Text(<<"j", "@", "x", ".", "o", "r", "g">>)]

JaneShout ==
  [name  |-> Text(<<"J", "A", "N", "E", " ", " ", "D", "O", "E", "!">>),
   title |-> Text(<<"C", "T", "O">>)]

NoName == [phone |-> Text(<<"5", "5", "5">>)]

EmptyName == [name |-> Text(<<>>)]

JsonFile(data) == [kind |-> "json", data |-> data]

InvalidFile == [kind |-> "invalid", data |-> <<>>]

MissingFile == [kind |-> "missing", data |-> <<>>]

InputFiles ==
  { JsonFile(JaneDoe), JsonFile(JaneShout), JsonFile(NoName),
    JsonFile(EmptyName), InvalidFile, MissingFile }

InputNames ==
  { <<"a">> \o DotJson, <<"a", "-", "b">> \o DotJson, <<"_">> \o DotJson,
    <<"n", ".", "t", "x", "t">> }

InputDirs ==
  { d \in UNION { [S -> InputFiles] :
                    S \in { T \in SUBSET InputNames : Cardinality(T) <= MaxFiles } } :
      \A n \in DOMAIN d : ~EndsWith(n, DotJson) => d[n] = InvalidFile }

ExistingBases == { <<"j", "a", "n", "e", "_", "d", "o", "e">>, DefaultBaseName }

ProbePaths ==
  { FirstPath(b) : b \in ExistingBases }
    \cup { Candidate(b, k) : b \in ExistingBases, k \in 2..MaxExisting }

ExistingPaths ==
  { FirstPath(b) : b \in ExistingBases }
    \cup { Candidate(<<"j", "a", "n", "e", "_", "d", "o", "e">>, k) : k \in 2..MaxExisting }

OldPage ==
  html_content([name |-> Text(<<"O", "l", "d">>)],
               generate_qr_code(generate_vcard([name |-> Text(<<"O", "l", "d">>)])))

----------------------------------------------------------------------------
(* main *)

InitHelpers ==
  /\ text = None
  /\ escaped = <<>>
  /\ value = None
  /\ slug = <<>>
  /\ reslug = <<>>

InitMain ==
  /\ pc = "start"
  /\ output_dir0 = output_dir
  /\ json_paths = <<>>
  /\ cursor = 0
  /\ card_data = <<>>
  /\ base_name = <<>>
  /\ output_path = <<>>
  /\ index = 0
  /\ vcard = <<>>
  /\ qr_code_uri = generate_qr_code(<<>>)
  /\ loaded = <<>>
  /\ generated = <<>>
  /\ exit_code = NotExited

Init ==
  /\ input_dir \in InputDirs
  /\ output_dir \in UNION { [S -> {OldPage}] : S \in SUBSET ExistingPaths }
  /\ InitMain
  /\ InitHelpers

(* lines 183-190: discover the inputs, exit 1 when there are none *)
Start ==
  /\ pc = "start"
  /\ json_paths' = sorted(glob_json(input_dir))
  /\ IF NoInputs(json_paths')
     THEN pc' = "exit" /\ exit_code' = 1 /\ cursor' = cursor
     ELSE pc' = "load" /\ exit_code' = exit_code /\ cursor' = 1
  /\ UNCHANGED << input_dir, output_dir, output_dir0, card_data, base_name,
                  output_path, index, vcard, qr_code_uri, loaded, generated >>
  /\ UNCHANGED << escapeVars, slugVars >>

(* lines 192-196: load the record of the current file, exit 1 on failure *)
Load ==
  /\ pc = "load"
  /\ LET r == load_business_card(input_dir[json_paths[cursor]])
     IN  IF r.ok
         THEN /\ card_data' = r.data
              /\ loaded' = Append(loaded, Get(r.data, "name", Text(Unknown)))
              /\ pc' = "base_name"
              /\ exit_code' = exit_code
         ELSE /\ card_data' = card_data
              /\ loaded' = loaded
              /\ pc' = "exit"
              /\ exit_code' = r.status
  /\ UNCHANGED << input_dir, output_dir, output_dir0, json_paths, cursor,
                  base_name, output_path, index, vcard, qr_code_uri, generated >>
  /\ UNCHANGED << escapeVars, slugVars >>

(* lines 198-202: the base name of the output file *)
ChooseBaseName ==
  /\ pc = "base_name"
  /\ base_name' = BaseName(card_data, json_paths[cursor])
  /\ pc' = "choose"
  /\ UNCHANGED << input_dir, output_dir, output_dir0, json_paths, cursor,
                  card_data, output_path, index, vcard, qr_code_uri, loaded,
                  generated, exit_code >>
  /\ UNCHANGED << escapeVars, slugVars >>

(* lines 160-164: choose_output_path, the unsuffixed name *)
ChooseFirst ==
  /\ pc = "choose"
  /\ IF ~exists(output_dir, FirstPath(base_name))
     THEN output_path' = FirstPath(base_name) /\ index' = index /\ pc' = "render"
     ELSE output_path' = output_path /\ index' = 2 /\ pc' = "probe"
  /\ UNCHANGED << input_dir, output_dir, output_dir0, json_paths, cursor,
                  card_data, base_name, vcard, qr_code_uri, loaded, generated,
                  exit_code >>
  /\ UNCHANGED << escapeVars, slugVars >>

(* lines 165-169: choose_output_path, one iteration of the while loop *)
ChooseProbe ==
  /\ pc = "probe"
  /\ IF ~exists(output_dir, Candidate(base_name, index))
     THEN output_path' = Candidate(base_name, index) /\ index' = index /\ pc' = "render"
     ELSE output_path' = output_path /\ index' = NextIndex(index) /\ pc' = "probe"
  /\ UNCHANGED << input_dir, output_dir, output_dir0, json_paths, cursor,
                  card_data, base_name, vcard, qr_code_uri, loaded, generated,
                  exit_code >>
  /\ UNCHANGED << escapeVars, slugVars >>

(* lines 206-220: vCard, QR code, page written to output_path; then the    *)
(* next file, or lines 222-223 and exit 0 after the last one               *)
Render ==
  /\ pc = "render"
  /\ vcard' = generate_vcard(card_data)
  /\ qr_code_uri' = generate_qr_code(vcard')
  /\ output_dir' = WriteFile(output_dir, output_path,
                             html_content(card_data, qr_code_uri'))
  /\ generated' = Append(generated, output_path)
  /\ IF cursor < Len(json_paths)
     THEN cursor' = cursor + 1 /\ pc' = "load" /\ exit_code' = exit_code
     ELSE cursor' = cursor /\ pc' = "done" /\ exit_code' = 0
  /\ UNCHANGED << input_dir, output_dir0, json_paths, card_data, base_name,
                  output_path, index, loaded >>
  /\ UNCHANGED << escapeVars, slugVars >>

Next ==
  \/ Start
  \/ Load
  \/ ChooseBaseName
  \/ ChooseFirst
  \/ ChooseProbe
  \/ Render

Spec == Init /\ [][Next]_vars

----------------------------------------------------------------------------
(* choose_output_path on its own: any base name against any output/ *)

ChooseInit ==
  /\ pc = "choose"
  /\ base_name \in ExistingBases \cup { <<"a", "b">> }
  /\ output_dir \in UNION { [S -> {OldPage}] : S \in SUBSET ProbePaths }
  /\ output_dir0 = output_dir
  /\ input_dir = <<>> /\ json_paths = <<>> /\ cursor = 0 /\ card_data = <<>>
  /\ output_path = <<>> /\ index = 0 /\ vcard = <<>>
  /\ qr_code_uri = generate_qr_code(<<>>)
  /\ loaded = <<>> /\ generated = <<>> /\ exit_code = NotExited
  /\ InitHelpers

ChooseNext ==
  \/ ChooseFirst
  \/ ChooseProbe

(* the call runs on: a step of choose_output_path that can be taken is taken *)
ChooseSpec == ChooseInit /\ [][ChooseNext]_vars /\ WF_vars(ChooseNext)

----------------------------------------------------------------------------
(* One record through main: a single input file holding any record of      *)
(* Records, output/ already holding card.html                              *)

Absent == [kind |-> "absent", s |-> <<>>]

NameValues ==
  { Absent, None, Text(<<>>), Text(<<"A">>), Text(<<"\\", ";">>),
    Text(<<"A", "\n", "T", "I", "T", "L", "E", ":", "x">>) }

FieldValue(state, flavour) ==
  IF state = "blank" THEN (IF flavour = 1 THEN None ELSE Text(<<>>))
  ELSE IF flavour = 1 THEN Text(<<"x">>) ELSE Text(<<"x", ",", "y">>)

MakeRecord(name, states, flavour) ==
  LET keys == { k \in Range(OptionalKeys) : states[k] # "absent" }
                \cup (IF name = Absent THEN {} ELSE {"name"})
  IN  [k \in keys |-> IF k = "name" THEN name ELSE FieldValue(states[k], flavour)]

Records ==
  { MakeRecord(n, st, fl) :
      n \in NameValues,
      st \in [Range(OptionalKeys) -> {"absent", "blank", "text"}],
      fl \in 1..2 }

RecordInit ==
  /\ \E r \in Records : input_dir = [n \in { DefaultBaseName \o DotJson } |-> JsonFile(r)]
  /\ output_dir = [p \in { FirstPath(DefaultBaseName) } |-> OldPage]
  /\ InitMain
  /\ InitHelpers

RecordSpec == RecordInit /\ [][Next]_vars

----------------------------------------------------------------------------
(* escape_vcard on its own *)

EscapeInit ==
  /\ pc = "escape_vcard"
  /\ text \in {None} \cup { Text(w) : w \in Strings(EscapeChars, MaxTextLen) }
  /\ escaped = <<>>
  /\ value = None /\ slug = <<>> /\ reslug = <<>>
  /\ input_dir = <<>> /\ output_dir = <<>> /\ output_dir0 = <<>>
  /\ json_paths = <<>> /\ cursor = 0 /\ card_data = <<>> /\ base_name = <<>>
  /\ output_path = <<>> /\ index = 0 /\ vcard = <<>>
  /\ qr_code_uri = generate_qr_code(<<>>)
  /\ loaded = <<>> /\ generated = <<>> /\ exit_code = NotExited

EscapeVcard ==
  /\ pc = "escape_vcard"
  /\ escaped' = escape_vcard(text)
  /\ pc' = "escape_done"
  /\ UNCHANGED << text, mainVars, slugVars >>

EscapeNext == EscapeVcard

EscapeSpec == EscapeInit /\ [][EscapeNext]_vars

----------------------------------------------------------------------------
(* slugify_name on its own, then on its own result *)

SlugInit ==
  /\ pc = "slugify_name"
  /\ value \in {None} \cup { Text(w) : w \in Strings(SlugChars, MaxSlugLen) }
  /\ slug = <<>> /\ reslug = <<>>
  /\ text = None /\ escaped = <<>>
  /\ input_dir = <<>> /\ output_dir = <<>> /\ output_dir0 = <<>>
  /\ json_paths = <<>> /\ cursor = 0 /\ card_data = <<>> /\ base_name = <<>>
  /\ output_path = <<>> /\ index = 0 /\ vcard = <<>>
  /\ qr_code_uri = generate_qr_code(<<>>)
  /\ loaded = <<>> /\ generated = <<>> /\ exit_code = NotExited

Slugify ==
  /\ pc = "slugify_name"
  /\ slug' = slugify_name(value)
  /\ pc' = "reslugify"
  /\ UNCHANGED << value, reslug, mainVars, escapeVars >>

Reslugify ==
  /\ pc = "reslugify"
  /\ reslug' = slugify_name(Text(slug))
  /\ pc' = "slug_done"
  /\ UNCHANGED << value, slug, mainVars, escapeVars >>

SlugNext ==
  \/ Slugify
  \/ Reslugify

SlugSpec == SlugInit /\ [][SlugNext]_vars

----------------------------------------------------------------------------
(* Properties *)

JaneDoeBase == <<"j", "a", "n", "e", "_", "d", "o", "e">>

PageOf(data) == html_content(data, generate_qr_code(generate_vcard(data)))

(* C1: never overwrite.  Every step of main keeps every file of output/    *)
(* with its content, and the path handed to render_template is not the     *)
(* name of an existing file.                                               *)
NeverOverwrite ==
  /\ [][\A p \in DOMAIN output_dir :
          p \in DOMAIN output_dir' /\ output_dir'[p] = output_dir[p]]_vars
  /\ [](pc = "render" => output_path \notin DOMAIN output_dir)

NeverOverwriteWitness ==
  /\ pc \in {"load", "done"}
  /\ generated # <<>>
  /\ FirstPath(base_name) \in DOMAIN output_dir0
  /\ output_dir[FirstPath(base_name)] = OldPage
  /\ generated[Len(generated)] = Candidate(base_name, index)
  /\ output_dir[generated[Len(generated)]] = PageOf(card_data)

SmallestFree(dir, base) ==
  CHOOSE k \in 2..(Cardinality(DOMAIN dir) + 2) :
    /\ Candidate(base, k) \notin DOMAIN dir
    /\ \A j \in 2..(k - 1) : Candidate(base, j) \in DOMAIN dir

(* C2: choose_output_path terminates, and returns <base>.html when that    *)
(* is free and otherwise <base>-k.html for the smallest k >= 2 that is     *)
(* free; with jane_doe.html present two records slugged jane_doe are       *)
(* written to jane_doe-2.html and jane_doe-3.html.                         *)
ChoosesSmallestFree ==
  /\ [](pc = "render" =>
          /\ output_path \notin DOMAIN output_dir
          /\ IF FirstPath(base_name) \notin DOMAIN output_dir
             THEN output_path = FirstPath(base_name)
             ELSE output_path = Candidate(base_name, SmallestFree(output_dir, base_name)))
  /\ [](pc = "render" /\ base_name = JaneDoeBase =>
          /\ DOMAIN output_dir = { FirstPath(JaneDoeBase) }
               => output_path = JaneDoeBase \o <<"-", "2">> \o DotHtml
          /\ DOMAIN output_dir = { FirstPath(JaneDoeBase), Candidate(JaneDoeBase, 2) }
               => output_path = JaneDoeBase \o <<"-", "3">> \o DotHtml)
  /\ (pc = "choose") ~> (pc = "render")

ChoosesSmallestFreeWitness ==
  /\ pc = "render"
  /\ DOMAIN output_dir = { FirstPath(JaneDoeBase), Candidate(JaneDoeBase, 2) }
  /\ index = 3
  /\ output_path = JaneDoeBase \o <<"-", "3">> \o DotHtml

RECURSIVE Unescape(_)
Unescape(s) ==
  IF s = <<>> THEN <<>>
  ELSE IF s[1] = "\\" /\ Len(s) >= 2 /\ s[2] \in {"\\", ";", ","}
       THEN <<s[2]>> \o Unescape(SubSeq(s, 3, Len(s)))
       ELSE <<s[1]>> \o Unescape(Tail(s))

Reserved(s) == { i \in 1..Len(s) : s[i] \in {"\\", ";", ","} }

(* C3: for every text value, unescaping escape_vcard's result gives the    *)
(* value back, and the result has one backslash more per reserved          *)
(* character of the value (none of the added backslashes is escaped        *)
(* again).                                                                 *)
EscapeRoundTrips ==
  (pc = "escape_done" /\ text.kind = "str") =>
     /\ Unescape(escaped) = text.s
     /\ Len(escaped) = Len(text.s) + Cardinality(Reserved(text.s))

EscapeRoundTripsWitness ==
  /\ pc = "escape_done"
  /\ text = Text(<<"\\", ";", ",">>)
  /\ escaped = <<"\\", "\\", "\\", ";", "\\", ",">>

SlugAlphabet ==
  { "a", "b", "c", "d", "e", "f", "g", "h", "i", "j", "k", "l", "m", "n", "o",
    "p", "q", "r", "s", "t", "u", "v", "w", "x", "y", "z", "0", "1", "2", "3",
    "4", "5", "6", "7", "8", "9", "_" }

WellFormedSlug(s) ==
  /\ Range(s) \subseteq SlugAlphabet
  /\ s # <<>> => s[1] # "_" /\ s[Len(s)] # "_"
  /\ \A i \in 1..(Len(s) - 1) : ~(s[i] = "_" /\ s[i + 1] = "_")

(* C4: slugify_name is idempotent, maps the empty string to the empty      *)
(* string, and every result is made of a-z, 0-9 and "_" with no leading,   *)
(* trailing or repeated underscore.                                        *)
SlugifyIdempotent ==
  /\ pc \in {"reslugify", "slug_done"} =>
        /\ WellFormedSlug(slug)
        /\ value = Text(<<>>) => slug = <<>>
  /\ pc = "slug_done" => reslug = slug

SlugifyIdempotentWitness ==
  /\ pc = "slug_done"
  /\ value = Text(<<"A", " ", "_", "b">>)
  /\ slug = <<"a", "_", "b">>
  /\ reslug = <<"a", "_", "b">>

RECURSIVE SplitLines(_)
SplitLines(s) ==
  LET breaks == { i \in 1..Len(s) : s[i] = "\n" }
  IN  IF breaks = {} THEN << s >>
      ELSE LET i == CHOOSE b \in breaks : \A c \in breaks : b <= c
           IN  << SubSeq(s, 1, i - 1) >> \o SplitLines(SubSeq(s, i + 1, Len(s)))

HasPrefix(s, prefix) ==
  Len(s) >= Len(prefix) /\ SubSeq(s, 1, Len(prefix)) = prefix

NonEmptyField(data, key) ==
  key \in DOMAIN data /\ data[key].kind = "str" /\ Len(data[key].s) > 0

PresentKeys(data) == SelectSeq(OptionalKeys, LAMBDA k : NonEmptyField(data, k))

(* C5: the vCard of every record is the lines BEGIN:VCARD, VERSION:3.0,    *)
(* FN, N (ending in ;;;), then one line for each non-empty optional field  *)
(* in the order title, company, phone, email, website, linkedin, github,   *)
(* twitter, then END:VCARD, and no other line.                             *)
VcardLinesFixed ==
  generated # <<>> =>
    LET lines == SplitLines(vcard)
        present == PresentKeys(card_data)
    IN  /\ Len(lines) = 5 + Len(present)
        /\ lines[1] = BEGIN_VCARD
        /\ lines[2] = VERSION_3_0
        /\ HasPrefix(lines[3], FN_)
        /\ HasPrefix(lines[4], N_)
        /\ EndsWith(lines[4], <<";", ";", ";">>)
        /\ \A i \in 1..Len(present) :
              HasPrefix(lines[4 + i], PropertyPrefix[present[i]])
        /\ lines[Len(lines)] = END_VCARD

(* C6: a record whose name is missing, empty or null gets the placeholder  *)
(* Unknown in the FN and N lines and as the name given to the template.    *)
NamelessIsUnknown ==
  (generated # <<>> /\ ~NonEmptyField(card_data, "name")) =>
    LET lines == SplitLines(vcard)
    IN  /\ lines[3] = FN_ \o Unknown
        /\ lines[4] = N_ \o Unknown \o <<";", ";", ";">>
        /\ output_dir[output_path].name = Text(Unknown)

(* C7: the base name is the slug of the name, else the slug of the input   *)
(* file's stem, else "card"; it is never empty.                            *)
BaseNameFallback ==
  pc \in {"choose", "probe", "render"} =>
    LET from_name == slugify_name(IF "name" \in DOMAIN card_data
                                  THEN card_data["name"] ELSE Text(<<>>))
        from_stem == slugify_name(Text(stem(json_paths[cursor])))
    IN  /\ base_name # <<>>
        /\ from_name # <<>> => base_name = from_name
        /\ (from_name = <<>> /\ from_stem # <<>>) => base_name = from_stem
        /\ (from_name = <<>> /\ from_stem = <<>>) => base_name = <<"c", "a", "r", "d">>
        /\ card_data \in {JaneDoe, JaneShout} => base_name = JaneDoeBase
        /\ (card_data \in {NoName, EmptyName} /\ json_paths[cursor] = <<"a", "-", "b">> \o DotJson)
             => base_name = <<"a", "b">>
        /\ (card_data \in {NoName, EmptyName} /\ json_paths[cursor] = <<"_">> \o DotJson)
             => base_name = <<"c", "a", "r", "d">>

BaseNameFallbackWitness ==
  /\ pc = "choose"
  /\ card_data = NoName
  /\ json_paths[cursor] = <<"_">> \o DotJson
  /\ base_name = <<"c", "a", "r", "d">>

JsonNames == { n \in DOMAIN input_dir : EndsWith(n, <<".", "j", "s", "o", "n">>) }

(* C8: with no JSON file in input/, main exits with status 1 at once:      *)
(* nothing is loaded and output/ is left as it was.                        *)
NoInputExits ==
  (pc # "start" /\ JsonNames = {}) =>
    /\ pc = "exit"
    /\ exit_code = 1
    /\ loaded = <<>>
    /\ card_data = <<>>
    /\ generated = <<>>
    /\ output_dir = output_dir0

NoInputExitsWitness ==
  /\ pc = "exit"
  /\ DOMAIN input_dir = { <<"n", ".", "t", "x", "t">> }
  /\ output_dir0 # <<>>

FirstFailure(k) ==
  /\ k \in 1..Len(json_paths)
  /\ input_dir[json_paths[k]].kind # "json"
  /\ \A j \in 1..(k - 1) : input_dir[json_paths[j]].kind = "json"

(* C9: when the k-th file fails to load, main exits with a non-zero        *)
(* status at that file: only the k-1 earlier records have a page, those    *)
(* pages stay as written, and nothing else in output/ changes.             *)
LoadFailureAborts ==
  \A k \in 1..Len(json_paths) :
    FirstFailure(k) =>
      /\ cursor <= k
      /\ Len(generated) <= k - 1
      /\ pc # "done"
      /\ (cursor = k /\ pc # "load") =>
           /\ pc = "exit"
           /\ exit_code # 0 /\ exit_code # NotExited
           /\ ~ENABLED Next
           /\ Len(generated) = k - 1
           /\ DOMAIN output_dir = DOMAIN output_dir0 \cup Range(generated)
           /\ \A p \in DOMAIN output_dir0 : output_dir[p] = output_dir0[p]
           /\ \A j \in 1..(k - 1) :
                 output_dir[generated[j]] = PageOf(input_dir[json_paths[j]].data)

LoadFailureAbortsWitness ==
  /\ pc = "exit"
  /\ cursor = 2
  /\ input_dir[json_paths[2]] = InvalidFile
  /\ Len(generated) = 1
  /\ generated[1] \in DOMAIN output_dir

(* C10: the files are taken in ascending order of name, each page is       *)
(* written before the next path is chosen, and a completed run over N      *)
(* files adds exactly N pages with pairwise distinct paths.                *)
OnePagePerRecord ==
  /\ pc # "start" =>
       /\ Range(json_paths) = JsonNames
       /\ \A i, j \in 1..Len(json_paths) :
             i < j => StrLess(json_paths[i], json_paths[j])
       /\ { <<"a">> \o DotJson, <<"a", "-", "b">> \o DotJson } \subseteq JsonNames
             => \E i, j \in 1..Len(json_paths) :
                  /\ i < j
                  /\ json_paths[i] = <<"a", "-", "b">> \o DotJson
                  /\ json_paths[j] = <<"a">> \o DotJson
  /\ pc \in {"base_name", "choose", "probe", "render"} =>
       /\ Len(generated) = cursor - 1
       /\ \A j \in 1..(cursor - 1) :
             output_dir[generated[j]] = PageOf(input_dir[json_paths[j]].data)
  /\ pc = "done" =>
       /\ exit_code = 0
       /\ Len(generated) = Len(json_paths)
       /\ \A i, j \in 1..Len(generated) : i # j => generated[i] # generated[j]
       /\ Range(generated) \cap DOMAIN output_dir0 = {}
       /\ DOMAIN output_dir = DOMAIN output_dir0 \cup Range(generated)
       /\ Cardinality(DOMAIN output_dir) =
             Cardinality(DOMAIN output_dir0) + Len(json_paths)
       /\ \A j \in 1..Len(json_paths) :
             output_dir[generated[j]] = PageOf(input_dir[json_paths[j]].data)

OnePagePerRecordWitness ==
  /\ pc = "done"
  /\ Len(json_paths) = 2
  /\ input_dir[json_paths[1]] = JsonFile(JaneDoe)
  /\ input_dir[json_paths[2]] = JsonFile(JaneShout)
  /\ generated = << FirstPath(JaneDoeBase), Candidate(JaneDoeBase, 2) >>

====
